---- MODULE Spec2Model ----
(***************************************************************************)
(* Model of the ledger calculator (src/advance_stats.py, src/advance.py,   *)
(* src/cli.py): the AdvanceStats engine that turns an ordered list of      *)
(* advance/payment events and a cutoff date into four aggregate figures.   *)
(*                                                                         *)
(* Numbers.  The engine computes with decimal.Decimal under the default    *)
(* context: every operation returns the exact result rounded to 28         *)
(* significant digits, ties to even.  A Decimal is modelled by its value:  *)
(* a sequence <<d0, d1, ..., dn>> standing for d0 + d1/Base + d2/Base^2 ...*)
(* with Base = 10^4, d0 a signed integer and 0 <= di < Base for i >= 1,    *)
(* without trailing zero limbs.  The X operators are exact, the D          *)
(* operators round as the context does.  The rate is Decimal(0.00035), the *)
(* exact value of the binary float, which has 64 digits after the point.   *)
(*                                                                         *)
(* Dates are day numbers (datetime at midnight, parsed from YYYY-MM-DD).   *)
(***************************************************************************)
EXTENDS Integers, Sequences, FiniteSets, TLC

(* ---------------------------- bounds ----------------------------------- *)
\* largest number of rows in the events table
MaxEvents == 3

\* number of times the balances command is run on the same table
MaxReports == 2

\* amounts of the events (column amount)
Amounts == {1, 1000}

\* days between two consecutive rows (rows come ordered by date_created asc)
DayGaps == {0, 1, 10}

\* cutoff dates (end_date argument of balances)
Cutoffs == {10}

\* largest number of rows in a table of unit amounts, and the day gaps of its rows
MaxLongEvents == 5

LongGaps == {0, 1}

\* the kinds the engine knows, and one it does not know
Kinds == {"advance", "payment"}

OtherKind == "other"

(* ------------------------ decimal arithmetic --------------------------- *)
\* a limb holds four decimal digits
Base == 10000

\* decimal.getcontext().prec : significant digits kept by every operation
Prec == 28

RECURSIVE CarryIn(_, _, _, _)
\* limbs hi, hi - 1, ..., lo of s, the least significant first, brought into
\* 0..Base-1 (floor division) after carry is added to limb hi, followed by
\* the carry out of limb lo; the range is halved so that the lower half's
\* carry is known before the upper half starts
CarryIn(s, lo, hi, carry) ==
    IF lo = hi THEN <<(s[lo] + carry) % Base, (s[lo] + carry) \div Base>>
    ELSE LET mid == (lo + hi) \div 2
             low == CarryIn(s, mid + 1, hi, carry)
         IN  SubSeq(low, 1, Len(low) - 1) \o CarryIn(s, lo, mid, low[Len(low)])

\* limbs brought into range: every limb but the first in 0..Base-1, the
\* first limb keeping the carry out of it
Carried(s) ==
    LET r == CarryIn(s, 1, Len(s), 0)
        n == Len(s)
    IN  [i \in 1..n |-> IF i = 1 THEN r[n + 1] * Base + r[n] ELSE r[n + 1 - i]] \o <<>>

\* index of the last non-zero limb of s, 1 if there is none after the first
LastNonZero(s) ==
    CHOOSE j \in 1..Len(s) : (j = 1 \/ s[j] # 0) /\ \A k \in (j + 1)..Len(s) : s[k] = 0

\* without trailing zero limbs
Trim(s) == SubSeq(s, 1, LastNonZero(s))

Norm(s) == Trim(Carried(s))

Max(a, b) == IF a >= b THEN a ELSE b

\* Decimal(n) for an integer n
Dec(n) == <<n>>

DZero == Dec(0)

\* limb i of s, 0 beyond its last limb
Limb(s, i) == IF i <= Len(s) THEN s[i] ELSE 0

\* the exact sum, difference and products, before the context rounds them
XAdd(a, b) ==
    IF Len(a) >= Len(b)
    THEN Norm([i \in 1..Len(a) |-> a[i] + Limb(b, i)] \o <<>>)
    ELSE Norm([i \in 1..Len(b) |-> Limb(a, i) + b[i]] \o <<>>)

XSub(a, b) ==
    IF Len(a) >= Len(b)
    THEN Norm([i \in 1..Len(a) |-> a[i] - Limb(b, i)] \o <<>>)
    ELSE Norm([i \in 1..Len(b) |-> Limb(a, i) - b[i]] \o <<>>)

XScale(a, k) == Norm([i \in 1..Len(a) |-> a[i] * k] \o <<>>)

RECURSIVE Conv(_, _, _, _)
\* limb k of the product of a and b: the sum of a[i] * b[k - i + 1] from i on
Conv(a, b, k, i) ==
    IF i > Len(a) \/ i > k THEN 0
    ELSE (IF k - i + 1 <= Len(b) THEN a[i] * b[k - i + 1] ELSE 0) + Conv(a, b, k, i + 1)

XMul(a, b) == Norm([k \in 1..(Len(a) + Len(b) - 1) |-> Conv(a, b, k, 1)] \o <<>>)

\* -1, 0 or 1
DSign(a) == IF a[1] > 0 THEN 1 ELSE IF a[1] < 0 THEN -1 ELSE IF Len(a) > 1 THEN 1 ELSE 0

RECURSIVE Digits(_)
\* number of decimal digits of n >= 0
Digits(n) == IF n < 10 THEN 1 ELSE 1 + Digits(n \div 10)

RECURSIVE Pow10(_)
Pow10(k) == IF k = 0 THEN 1 ELSE 10 * Pow10(k - 1)

LimbDigits == Digits(Base) - 1

\* index of the first non-zero limb of s after the first
FirstNonZero(s) == CHOOSE j \in 2..Len(s) : s[j] # 0 /\ \A k \in 2..(j - 1) : s[k] = 0

\* number of digits after the point that Prec significant digits of s > 0 reach
Places(s) ==
    IF s[1] > 0 THEN Prec - Digits(s[1])
    ELSE LET j == FirstNonZero(s)
         IN  LimbDigits * (j - 2) + (LimbDigits - Digits(s[j])) + Prec

\* s > 0 rounded to q digits after the point, ROUND_HALF_EVEN
RoundAt(s, q) ==
    LET c == (q \div LimbDigits) + 2
        u == Pow10(LimbDigits - (q % LimbDigits))
    IN  IF c > Len(s) THEN s
        ELSE LET rem == s[c] % u
                 kept == s[c] - rem
                 last == IF u < Base THEN kept \div u ELSE s[c - 1]
                 up == \/ 2 * rem > u
                       \/ 2 * rem = u /\ (c < Len(s) \/ (last % 2) = 1)
             IN  Norm([i \in 1..c |-> IF i < c THEN s[i] ELSE kept + (IF up THEN u ELSE 0)] \o <<>>)

\* the context's rounding of an exact result to Prec significant digits
Round(s) ==
    IF DSign(s) = 0 THEN s
    ELSE IF DSign(s) = 1 THEN RoundAt(s, Places(s))
    ELSE XSub(DZero, RoundAt(XSub(DZero, s), Places(XSub(DZero, s))))

\* Decimal.__add__, __sub__, __mul__ (by a Decimal, by an int), __gt__
DAdd(a, b) == Round(XAdd(a, b))

DSub(a, b) == Round(XSub(a, b))

DMul(a, b) == Round(XMul(a, b))

DScale(a, k) == Round(XScale(a, k))

DGt(a, b) == DSign(XSub(a, b)) = 1

\* ADVANCE_INTEREST_RATE = Decimal(0.00035): the exact value of the float 0.00035,
\* 0.0003499999999999999964438168742475454564555548131465911865234375
ADVANCE_INTEREST_RATE ==
    <<0, 3, 4999, 9999, 9999, 9999, 6443, 8168, 7424, 7545, 4564, 5555, 4813, 1465, 9118, 6523, 4375>>

(* ------------------------------ records -------------------------------- *)
\* Advance(id, type, initial_amount, date, current_amount, last_modified_date)
Advance(id, type, initial_amount, date, current_amount, last_modified_date) ==
    [id |-> id, type |-> type, initial_amount |-> initial_amount, date |-> date,
     current_amount |-> current_amount, last_modified_date |-> last_modified_date]

PAYMENT_EVENT == "payment"

ADVANCE_EVENT == "advance"

\* AdvanceStats.__init__ : the state of a freshly constructed engine
__init__ ==
    [overall_advance_balance |-> Dec(0),
     overall_interest_payable_balance |-> Dec(0),
     overall_interest_paid |-> Dec(0),
     overall_payments_for_future |-> Dec(0),
     advances |-> <<>>,
     first_not_fully_paid_advance_index |-> 0]

(* ------------------------- interest accrual ---------------------------- *)
\* mutant of advance_interest: both end days counted
advance_interest_inclusive(advance, end_datetime) ==
    IF advance.last_modified_date > end_datetime \/ advance.current_amount = DZero
    THEN DZero
    ELSE DScale(DMul(advance.current_amount, ADVANCE_INTEREST_RATE),
                end_datetime - advance.last_modified_date + 1)

\* the term one advance adds to total_interest (the body of the for loop)
advance_interest(advance, end_datetime) ==
    IF advance.last_modified_date > end_datetime \/ advance.current_amount = DZero
    THEN DZero
    ELSE LET advance_interest_days == end_datetime - advance.last_modified_date
         IN  IF advance_interest_days = 0
             THEN DZero
             ELSE DScale(DMul(advance.current_amount, ADVANCE_INTEREST_RATE), advance_interest_days)

RECURSIVE interest_from(_, _, _, _)
\* the for loop over advances[i:] (i is the 0-based Python index), total_interest so far
interest_from(advs, i, end_datetime, total_interest) ==
    IF i >= Len(advs) THEN total_interest
    ELSE interest_from(advs, i + 1, end_datetime,
                       DAdd(total_interest, advance_interest(advs[i + 1], end_datetime)))

get_overall_interest(self, end_datetime) ==
    interest_from(self.advances, self.first_not_fully_paid_advance_index, end_datetime, DZero)

(* ------------------------- reduction sweep ----------------------------- *)
\* mutant of fully_paid: the comparison the other way round
fully_paid_flipped(remaining, advance) == DGt(advance.current_amount, remaining)

\* the test "remaining > advance.current_amount" of the while loop body
fully_paid(remaining, advance) == DGt(remaining, advance.current_amount)

\* mutant of reduce_one: the advance is stamped with the first day of the table
reduce_one_backdating(advance, remaining, event_datetime) ==
    IF fully_paid(remaining, advance)
    THEN [advance EXCEPT !.current_amount = DZero, !.last_modified_date = 0]
    ELSE [advance EXCEPT !.current_amount = DSub(advance.current_amount, remaining),
                         !.last_modified_date = 0]

\* one pass of the while loop body on advances[advance_index], remaining > 0
reduce_one(advance, remaining, event_datetime) ==
    IF fully_paid(remaining, advance)
    THEN [advance EXCEPT !.current_amount = DZero, !.last_modified_date = event_datetime]
    ELSE [advance EXCEPT !.current_amount = DSub(advance.current_amount, remaining),
                         !.last_modified_date = event_datetime]

RECURSIVE reduce_loop(_, _, _, _, _)
\* the while loop: returns the advances, the cursor and the index the loop stopped at
reduce_loop(advs, first, remaining, advance_index, event_datetime) ==
    IF ~DGt(remaining, DZero) \/ advance_index >= Len(advs)
    THEN [advances |-> advs, first |-> first, advance_index |-> advance_index]
    ELSE LET advance == advs[advance_index + 1]
             remaining_acc == DSub(remaining, advance.current_amount)
             fully == fully_paid(remaining, advance)
         IN  reduce_loop([advs EXCEPT ![advance_index + 1] = reduce_one(advance, remaining, event_datetime)],
                         IF fully THEN first + 1 ELSE first,
                         remaining_acc, advance_index + 1, event_datetime)

\* mutant of reduce_advances: the sweep starts one advance too late
reduce_advances_skipping(self, amount, event_datetime) ==
    LET r == reduce_loop(self.advances, self.first_not_fully_paid_advance_index, amount,
                         self.first_not_fully_paid_advance_index + 1, event_datetime)
    IN  [self EXCEPT
            !.advances = [i \in 1..Len(r.advances) |->
                            IF i > r.advance_index
                            THEN [r.advances[i] EXCEPT !.last_modified_date = event_datetime]
                            ELSE r.advances[i]],
            !.first_not_fully_paid_advance_index = r.first]

\* mutant of reduce_advances: without the trailing pass over the untouched advances
reduce_advances_no_trailing(self, amount, event_datetime) ==
    LET r == reduce_loop(self.advances, self.first_not_fully_paid_advance_index, amount,
                         self.first_not_fully_paid_advance_index, event_datetime)
    IN  [self EXCEPT
            !.advances = r.advances,
            !.first_not_fully_paid_advance_index = r.first]

reduce_advances(self, amount, event_datetime) ==
    LET r == reduce_loop(self.advances, self.first_not_fully_paid_advance_index, amount,
                         self.first_not_fully_paid_advance_index, event_datetime)
    IN  [self EXCEPT
            !.advances = [i \in 1..Len(r.advances) |->
                            IF i > r.advance_index
                            THEN [r.advances[i] EXCEPT !.last_modified_date = event_datetime]
                            ELSE r.advances[i]],
            !.first_not_fully_paid_advance_index = r.first]

(* -------------------------- advance issuance --------------------------- *)
\* mutant of prepaid: the operands of the subtraction swapped
prepaid_swapped(credit, amount) == DGt(DSub(amount, credit), DZero)

\* the test "(self.overall_payments_for_future - advance.initial_amount) > 0"
prepaid(credit, amount) == DGt(DSub(credit, amount), DZero)

\* mutant of process_advance: a pre-paid advance is still added to the balance
process_advance_charging(self, advance) ==
    LET credit == self.overall_payments_for_future
        amount == advance.initial_amount
    IN  IF DGt(credit, DZero)
        THEN IF prepaid(credit, amount)
             THEN [self EXCEPT
                      !.overall_payments_for_future = DSub(credit, amount),
                      !.overall_advance_balance = DAdd(self.overall_advance_balance, amount),
                      !.advances = Append(self.advances, [advance EXCEPT !.current_amount = DZero])]
             ELSE [self EXCEPT
                      !.overall_advance_balance = DAdd(self.overall_advance_balance, DSub(amount, credit)),
                      !.overall_payments_for_future = DZero,
                      !.advances = Append(self.advances, [advance EXCEPT !.current_amount = DSub(amount, credit)])]
        ELSE [self EXCEPT
                 !.overall_advance_balance = DAdd(self.overall_advance_balance, amount),
                 !.advances = Append(self.advances, [advance EXCEPT !.current_amount = amount])]

process_advance(self, advance) ==
    LET credit == self.overall_payments_for_future
        amount == advance.initial_amount
    IN  IF DGt(credit, DZero)
        THEN IF prepaid(credit, amount)
             THEN [self EXCEPT
                      !.overall_payments_for_future = DSub(credit, amount),
                      !.overall_advance_balance = DZero,
                      !.advances = Append(self.advances, [advance EXCEPT !.current_amount = DZero])]
             ELSE [self EXCEPT
                      !.overall_advance_balance = DAdd(self.overall_advance_balance, DSub(amount, credit)),
                      !.overall_payments_for_future = DZero,
                      !.advances = Append(self.advances, [advance EXCEPT !.current_amount = DSub(amount, credit)])]
        ELSE [self EXCEPT
                 !.overall_advance_balance = DAdd(self.overall_advance_balance, amount),
                 !.advances = Append(self.advances, [advance EXCEPT !.current_amount = amount])]

(* -------------------------- payment waterfall -------------------------- *)
\* mutant of interest_paid_after: the whole payment counted as interest paid
interest_paid_uncapped(paid, payment_amount, interest) == DAdd(paid, payment_amount)

\* mutant of interest_paid_after: assigned instead of accumulated
interest_paid_assigned(paid, payment_amount, interest) ==
    IF DGt(payment_amount, interest) THEN interest ELSE payment_amount

\* overall_interest_paid after the payment (the if/else on the payment amount)
interest_paid_after(paid, payment_amount, interest) ==
    IF DGt(payment_amount, interest) THEN DAdd(paid, interest) ELSE DAdd(paid, payment_amount)

\* the aggregate update once the sweep has run, amount_after_interest_payed > 0
settle_balance(self, amount_after_interest_payed) ==
    LET amount_after_advance_balance_payed ==
            DSub(amount_after_interest_payed, self.overall_advance_balance)
    IN  IF DGt(amount_after_advance_balance_payed, DZero)
        THEN [self EXCEPT
                 !.overall_advance_balance = DZero,
                 !.overall_payments_for_future =
                     DAdd(self.overall_payments_for_future, amount_after_advance_balance_payed)]
        ELSE [self EXCEPT
                 !.overall_advance_balance =
                     DSub(self.overall_advance_balance, amount_after_interest_payed)]

\* mutant of process_payment: a payment absorbed by interest still runs the
\* trailing pass of the sweep
process_payment_sweeping(self, payment, event_datetime) ==
    LET payment_amount == Dec(payment.amount)
        interest == get_overall_interest(self, event_datetime)
        s1 == [self EXCEPT
                  !.overall_interest_payable_balance = interest,
                  !.overall_interest_paid =
                      interest_paid_after(self.overall_interest_paid, payment_amount, interest)]
        amount_after_interest_payed == DSub(payment_amount, interest)
    IN  IF DGt(amount_after_interest_payed, DZero)
        THEN settle_balance(reduce_advances(s1, amount_after_interest_payed, event_datetime),
                            amount_after_interest_payed)
        ELSE reduce_advances(s1, DZero, event_datetime)

process_payment(self, payment, event_datetime) ==
    LET payment_amount == Dec(payment.amount)
        interest == get_overall_interest(self, event_datetime)
        s1 == [self EXCEPT
                  !.overall_interest_payable_balance = interest,
                  !.overall_interest_paid =
                      interest_paid_after(self.overall_interest_paid, payment_amount, interest)]
        amount_after_interest_payed == DSub(payment_amount, interest)
    IN  IF DGt(amount_after_interest_payed, DZero)
        THEN settle_balance(reduce_advances(s1, amount_after_interest_payed, event_datetime),
                            amount_after_interest_payed)
        ELSE s1

(* --------------------------- event dispatch ---------------------------- *)
\* mutant of after_cutoff: an event dated on the cutoff is dropped too
after_cutoff_inclusive(event_datetime, end_datetime) == event_datetime >= end_datetime

\* the cutoff filter: the event is dropped
after_cutoff(event_datetime, end_datetime) == event_datetime > end_datetime

\* event = (id, type, amount, date_created); date_created parsed to a day number
process_event(self, event, end_datetime) ==
    LET event_datetime == event.date_created
    IN  IF after_cutoff(event_datetime, end_datetime) THEN self
        ELSE IF event.type = ADVANCE_EVENT
             THEN process_advance(self, Advance(event.id, event.type, Dec(event.amount),
                                                event.date_created, DZero, event_datetime))
        ELSE IF event.type = PAYMENT_EVENT
             THEN process_payment(self, event, event_datetime)
        ELSE self

(* ------------------------------- state --------------------------------- *)
VARIABLES
    advances,                             \* self.advances
    first_not_fully_paid_advance_index,   \* self.first_not_fully_paid_advance_index
    overall_advance_balance,              \* self.overall_advance_balance
    overall_interest_payable_balance,     \* self.overall_interest_payable_balance
    overall_interest_paid,                \* self.overall_interest_paid
    overall_payments_for_future,          \* self.overall_payments_for_future
    events,        \* rows of the events table, in date order, as far as they have been read
    end_datetime,  \* the cutoff (end_date) of the reports
    event,         \* the row the loop of get_advances_summary dispatched last
    idx,           \* number of rows the current report has dispatched
    pc,            \* "events": inside the loop of get_advances_summary; "done": it returned
    results        \* the tuples returned by get_advances_summary, one per report

vars == <<advances, first_not_fully_paid_advance_index, overall_advance_balance,
          overall_interest_payable_balance, overall_interest_paid,
          overall_payments_for_future, events, end_datetime, event, idx, pc, results>>

\* the fields of the engine object
Engine ==
    <<advances, first_not_fully_paid_advance_index, overall_advance_balance,
      overall_interest_payable_balance, overall_interest_paid, overall_payments_for_future>>

\* the engine object as one record
Self ==
    [overall_advance_balance |-> overall_advance_balance,
     overall_interest_payable_balance |-> overall_interest_payable_balance,
     overall_interest_paid |-> overall_interest_paid,
     overall_payments_for_future |-> overall_payments_for_future,
     advances |-> advances,
     first_not_fully_paid_advance_index |-> first_not_fully_paid_advance_index]

\* the engine object becomes s
Becomes(s) ==
    /\ advances' = s.advances
    /\ first_not_fully_paid_advance_index' = s.first_not_fully_paid_advance_index
    /\ overall_advance_balance' = s.overall_advance_balance
    /\ overall_interest_payable_balance' = s.overall_interest_payable_balance
    /\ overall_interest_paid' = s.overall_interest_paid
    /\ overall_payments_for_future' = s.overall_payments_for_future

\* the engine object is s
Is(s) ==
    /\ advances = s.advances
    /\ first_not_fully_paid_advance_index = s.first_not_fully_paid_advance_index
    /\ overall_advance_balance = s.overall_advance_balance
    /\ overall_interest_payable_balance = s.overall_interest_payable_balance
    /\ overall_interest_paid = s.overall_interest_paid
    /\ overall_payments_for_future = s.overall_payments_for_future

NoEvent == [id |-> 0, type |-> "none", amount |-> 0, date_created |-> 0]

\* balances: advance_stats = AdvanceStats(), before the first row is dispatched
Init ==
    /\ Is(__init__)
    /\ events = <<>>
    /\ end_datetime \in Cutoffs
    /\ event = NoEvent
    /\ idx = 0
    /\ pc = "events"
    /\ results = <<>>

(* ------------------------------ actions -------------------------------- *)
\* the rows the table may hold next: non-decreasing dates (order by date_created asc)
LastDate == IF Len(events) = 0 THEN 0 ELSE events[Len(events)].date_created

Row(k, a, g) == [id |-> Len(events) + 1, type |-> k, amount |-> a, date_created |-> LastDate + g]

\* rows of both kinds with every amount and gap, zero-amount rows and a row of
\* an unknown kind on the day of the row before
NewRows ==
    {Row(k, a, g) : k \in Kinds, a \in Amounts, g \in DayGaps}
        \cup {Row(k, 0, 0) : k \in Kinds}
        \cup {Row(OtherKind, 1, 0)}

\* rows of both kinds with the amount 1, for the longer tables
LongRows == {Row(k, 1, g) : k \in Kinds, g \in LongGaps}

\* the rows the loop may dispatch now: the next row already read (a later report
\* reads the same table), or, in the first report, any row the table may hold
NextRows(rows, max) ==
    IF idx < Len(events) THEN {events[idx + 1]}
    ELSE IF Len(results) = 0 /\ Len(events) < max THEN rows
    ELSE {}

\* get_advances_summary, one pass of "for event in events: self.process_event(...)"
process_next_event(rows, max) ==
    /\ pc = "events"
    /\ \E e \in NextRows(rows, max) :
          /\ events' = IF idx < Len(events) THEN events ELSE Append(events, e)
          /\ event' = e
          /\ \E s \in {process_event(Self, e, end_datetime)} : Becomes(s)
    /\ idx' = idx + 1
    /\ UNCHANGED <<end_datetime, pc, results>>

DispatchEvent == process_next_event(NewRows, MaxEvents)

DispatchLongEvent == process_next_event(LongRows, MaxLongEvents)

\* mutant of summary: the final accrual stops at the cutoff itself
summary_at_cutoff(self, end) ==
    [self EXCEPT !.overall_interest_payable_balance = get_overall_interest(self, end)]

\* get_advances_summary after the loop: the final accrual and the returned tuple
summary(self, end) ==
    [self EXCEPT !.overall_interest_payable_balance = get_overall_interest(self, end + 1)]

result_tuple(s) ==
    <<s.overall_advance_balance, s.overall_interest_payable_balance,
      s.overall_interest_paid, s.overall_payments_for_future>>

Summarize ==
    /\ pc = "events"
    /\ idx = Len(events)
    /\ \E s \in {summary(Self, end_datetime)} :
          /\ Becomes(s)
          /\ results' = Append(results, result_tuple(s))
    /\ pc' = "done"
    /\ UNCHANGED <<events, end_datetime, event, idx>>

\* mutant of balances: the engine object of the previous report is used again
balances_reusing_engine ==
    /\ pc = "done"
    /\ Len(results) < MaxReports
    /\ event' = NoEvent
    /\ idx' = 0
    /\ pc' = "events"
    /\ UNCHANGED <<Engine, events, end_datetime, results>>

\* the balances command is run again on the same table with the same end_date
balances ==
    /\ pc = "done"
    /\ Len(results) < MaxReports
    /\ Becomes(__init__)
    /\ event' = NoEvent
    /\ idx' = 0
    /\ pc' = "events"
    /\ UNCHANGED <<events, end_datetime, results>>

Next == DispatchEvent \/ Summarize \/ balances

Spec == Init /\ [][Next]_vars

\* the same program on tables of up to MaxLongEvents rows of unit amounts
NextLong == DispatchLongEvent \/ Summarize \/ balances

SpecLong == Init /\ [][NextLong]_vars

(* ------------------------------ claims --------------------------------- *)
RECURSIVE SumFrom(_, _, _)
\* sum(a.current_amount for a in advs[i:]) added to acc from left to right
SumFrom(advs, i, acc) ==
    IF i >= Len(advs) THEN acc
    ELSE SumFrom(advs, i + 1, DAdd(acc, advs[i + 1].current_amount))

\* the sum of current_amount over advs[i:] (i is the 0-based Python index)
SumCurrent(advs, i) == SumFrom(advs, i, DZero)

DGe(a, b) == ~DGt(b, a)

\* the event dispatched last was processed: not dropped by the cutoff filter
Processed == event.type \in Kinds /\ event.date_created <= end_datetime

\* C1: after every processed event, overall_advance_balance equals the sum of
\* current_amount over advances[first_not_fully_paid_advance_index:], and is
\* never negative.  (The sum is taken as the engine's arithmetic takes it.)
C1_BalanceIsSum ==
    /\ overall_advance_balance = SumCurrent(advances, first_not_fully_paid_advance_index)
    /\ DGe(overall_advance_balance, DZero)

\* C2: every advance of the list has 0 <= current_amount <= initial_amount in
\* every reachable state.
C2_CurrentWithinInitial ==
    \A i \in 1..Len(advances) :
        /\ DGe(advances[i].current_amount, DZero)
        /\ DGe(advances[i].initial_amount, advances[i].current_amount)

\* an advance netted against credit at issuance was later partly paid by a payment
C2_Witness ==
    /\ idx = 3 /\ Len(advances) = 1
    /\ events[1].type = PAYMENT_EVENT /\ events[2].type = ADVANCE_EVENT
    /\ events[3].type = PAYMENT_EVENT
    /\ DGt(advances[1].current_amount, DZero)
    /\ DGt(advances[1].initial_amount, advances[1].current_amount)
    /\ advances[1].last_modified_date > advances[1].date
    /\ DGt(overall_interest_paid, DZero)

\* C4: overall_payments_for_future is >= 0 in every reachable state.
C4_CreditNonNegative == DGe(overall_payments_for_future, DZero)

\* an advance was issued against a credit that did not cover it
C4_Witness ==
    /\ Processed /\ event.type = ADVANCE_EVENT
    /\ overall_payments_for_future = DZero
    /\ DGt(advances[Len(advances)].current_amount, DZero)
    /\ DGt(advances[Len(advances)].initial_amount, advances[Len(advances)].current_amount)

\* the step dispatches a row to process_event
Dispatch == pc = "events" /\ idx' = idx + 1

\* the step dispatches a row that process_event does not drop
DispatchOf(kind) ==
    Dispatch /\ event'.type = kind /\ event'.date_created <= end_datetime

\* C3: advances are settled in issuance order: in any payment step the
\* current_amount of a later-issued advance decreases only if every
\* earlier-issued advance has current_amount = 0 after that step.
C3_IssuanceOrder ==
    [][DispatchOf(PAYMENT_EVENT) =>
        \A j \in 1..Len(advances) :
            DGt(advances[j].current_amount, advances'[j].current_amount) =>
                \A i \in 1..(j - 1) : advances'[i].current_amount = DZero]_vars

\* two advances issued without credit, then a payment that paid the first in
\* full and part of the second
C3_Witness ==
    /\ idx = 3 /\ Len(advances) = 2
    /\ events[1].type = ADVANCE_EVENT /\ events[2].type = ADVANCE_EVENT
    /\ events[3].type = PAYMENT_EVENT
    /\ advances[1].current_amount = DZero
    /\ DGt(advances[2].current_amount, DZero)
    /\ DGt(advances[2].initial_amount, advances[2].current_amount)

\* C5: an event dated exactly on the cutoff is processed (an advance is
\* appended, a payment of a positive amount changes the totals), while an
\* event dated after the cutoff, or of a kind other than advance/payment,
\* leaves the advance list, the cursor and the four totals unchanged.
C5_CutoffAndUnknownKind ==
    [][Dispatch =>
        /\ (event'.date_created > end_datetime \/ event'.type \notin Kinds) =>
               UNCHANGED Engine
        /\ (event'.date_created = end_datetime /\ event'.type = ADVANCE_EVENT) =>
               /\ Len(advances') = Len(advances) + 1
               /\ advances'[Len(advances')].id = event'.id
               /\ advances'[Len(advances')].last_modified_date = end_datetime
        /\ (event'.date_created = end_datetime /\ event'.type = PAYMENT_EVENT
                /\ event'.amount > 0) =>
               <<overall_advance_balance, overall_interest_paid, overall_payments_for_future>>' #
               <<overall_advance_balance, overall_interest_paid, overall_payments_for_future>>]_vars

\* an advance dated on the cutoff is in the list and the next advance, dated the
\* day after, is not
C5_Witness ==
    /\ idx = 2 /\ Len(advances) = 1
    /\ events[1].type = ADVANCE_EVENT /\ events[1].date_created = end_datetime
    /\ events[2].type = ADVANCE_EVENT /\ events[2].date_created = end_datetime + 1
    /\ advances[1].id = 1

\* C6: a payment whose amount exceeds the total owed at its date (the interest
\* accrued to the event date plus the sum of all current_amount) zeroes every
\* advance and overall_advance_balance and increases
\* overall_payments_for_future by exactly amount - interest - principal,
\* which is positive.  (The difference is taken as the engine's arithmetic takes it.)
C6_Overpayment ==
    [][DispatchOf(PAYMENT_EVENT) =>
        \A payment \in {event'} :
        \A interest \in {get_overall_interest(Self, payment.date_created)} :
        \A principal \in {SumCurrent(advances, 0)} :
            DGt(Dec(payment.amount), DAdd(interest, principal)) =>
                /\ \A i \in 1..Len(advances') : advances'[i].current_amount = DZero
                /\ overall_advance_balance' = DZero
                /\ overall_payments_for_future' =
                       DAdd(overall_payments_for_future,
                            DSub(DSub(Dec(payment.amount), interest), principal))
                /\ DGt(overall_payments_for_future', overall_payments_for_future)]_vars

\* C7: an advance issued while overall_payments_for_future > 0 and with
\* initial_amount smaller than the credit is appended with current_amount = 0,
\* and the credit is reduced by exactly its initial_amount.
C7_PrepaidAdvance ==
    [][DispatchOf(ADVANCE_EVENT) /\ DGt(overall_payments_for_future, DZero) /\
       DGt(overall_payments_for_future, Dec(event'.amount)) =>
        /\ Len(advances') = Len(advances) + 1
        /\ advances'[Len(advances')].initial_amount = Dec(event'.amount)
        /\ advances'[Len(advances')].current_amount = DZero
        /\ overall_payments_for_future' = DSub(overall_payments_for_future, Dec(event'.amount))]_vars

\* an advance of 1 was issued against the credit a payment of 1000 had left
C7_Witness ==
    /\ idx = 2 /\ Len(advances) = 1
    /\ events[1].type = PAYMENT_EVENT /\ events[1].amount = 1000
    /\ events[2].type = ADVANCE_EVENT /\ events[2].amount = 1
    /\ events[2].date_created <= end_datetime
    /\ advances[1].current_amount = DZero
    /\ overall_payments_for_future = Dec(999)

\* Scenario A: one advance of 1000 on day 0, one payment of 1000 on day 10, both dispatched
ScenarioA ==
    /\ idx = 2
    /\ events = <<[id |-> 1, type |-> ADVANCE_EVENT, amount |-> 1000, date_created |-> 0],
                  [id |-> 2, type |-> PAYMENT_EVENT, amount |-> 1000, date_created |-> 10]>>

\* 3.5
ThreeAndAHalf == <<3, 5000>>

\* 3.499999999999999964438168742 = 1000 * ADVANCE_INTEREST_RATE * 10
InterestA == <<3, 4999, 9999, 9999, 9999, 6443, 8168, 7420>>

\* 3.4999999999999999644381687 = 1000 - (1000 - InterestA)
LeftA == <<3, 4999, 9999, 9999, 9999, 6443, 8168, 7000>>

\* C8 as stated: in Scenario A the interest paid is 3.5, the advance is fully
\* extinguished (current_amount = 0), no future credit is created and
\* overall_advance_balance = 3.5.
C8_ScenarioA_AsStated ==
    ScenarioA =>
        /\ overall_interest_paid = ThreeAndAHalf
        /\ advances[1].current_amount = DZero
        /\ overall_payments_for_future = DZero
        /\ overall_advance_balance = ThreeAndAHalf

\* C8 amended: in Scenario A the interest paid is the interest accrued,
\* 1000 * ADVANCE_INTEREST_RATE * 10 (3.499999999999999964438168742); the rest
\* of the payment does not exceed the advance's 1000, so the advance is partly
\* reduced and keeps current_amount = 1000 - rest (3.4999999999999999644381687)
\* with the cursor still on it, no future credit is created and
\* overall_advance_balance equals that current_amount.
C8_ScenarioA ==
    ScenarioA =>
        /\ overall_interest_paid = DScale(DMul(Dec(1000), ADVANCE_INTEREST_RATE), 10)
        /\ overall_interest_paid = InterestA
        /\ Len(advances) = 1
        /\ advances[1].current_amount = DSub(Dec(1000), DSub(Dec(1000), overall_interest_paid))
        /\ advances[1].current_amount = LeftA
        /\ advances[1].last_modified_date = 10
        /\ first_not_fully_paid_advance_index = 0
        /\ overall_payments_for_future = DZero
        /\ overall_advance_balance = advances[1].current_amount

\* Scenario A has run in the first report
C8_Witness == ScenarioA /\ Len(results) = 0 /\ pc = "events"

C10_Monotone ==
    [][pc = "events" =>
        /\ DGe(overall_interest_paid', overall_interest_paid)
        /\ DGt(overall_payments_for_future, overall_payments_for_future') =>
               DispatchOf(ADVANCE_EVENT)]_vars

\* interest was paid, credit was banked, and an advance then consumed all of it
C10_Witness ==
    /\ idx = 3
    /\ events[2].type = PAYMENT_EVENT /\ events[3].type = ADVANCE_EVENT
    /\ Processed
    /\ DGt(overall_interest_paid, DZero)
    /\ overall_payments_for_future = DZero
    /\ DGt(advances[Len(advances)].initial_amount, advances[Len(advances)].current_amount)

RECURSIVE AccruedFrom(_, _, _, _)
\* current_amount * ADVANCE_INTEREST_RATE * (day - last_modified_date) of every
\* advance of advs after the first i that has current_amount > 0, added to acc
\* from left to right
AccruedFrom(advs, i, day, acc) ==
    IF i >= Len(advs) THEN acc
    ELSE AccruedFrom(advs, i + 1, day,
                     IF DGt(advs[i + 1].current_amount, DZero)
                     THEN DAdd(acc, DScale(DMul(advs[i + 1].current_amount, ADVANCE_INTEREST_RATE),
                                           day - advs[i + 1].last_modified_date))
                     ELSE acc)

\* C11: the interest payable a report returns is the sum, over the advances
\* with unpaid principal after the last event, of current_amount *
\* ADVANCE_INTEREST_RATE * whole days from last_modified_date to the day after
\* the cutoff; an advance issued on the cutoff date accrues exactly one day.
C11_FinalAccrual ==
    pc = "done" =>
        /\ overall_interest_payable_balance = AccruedFrom(advances, 0, end_datetime + 1, DZero)
        /\ results[Len(results)][2] = overall_interest_payable_balance
        /\ \A i \in 1..Len(advances) :
              advances[i].date = end_datetime =>
                  (end_datetime + 1) - advances[i].last_modified_date = 1
        /\ (Len(advances) = 1 /\ advances[1].date = end_datetime) =>
               overall_interest_payable_balance = DMul(advances[1].current_amount, ADVANCE_INTEREST_RATE)

\* a report returned one day of interest on an advance of 1000 issued on the cutoff date
C11_Witness ==
    /\ pc = "done" /\ Len(advances) = 1
    /\ advances[1].date = end_datetime
    /\ advances[1].current_amount = Dec(1000)
    /\ results[Len(results)][2] = DMul(Dec(1000), ADVANCE_INTEREST_RATE)
    /\ DGt(results[Len(results)][2], DZero)

\* no advance was netted against credit or reached by a reduction sweep, and
\* no credit is banked: every payment so far went to interest only
Untouched ==
    /\ overall_payments_for_future = DZero
    /\ \A i \in 1..Len(advances) :
          /\ advances[i].current_amount = advances[i].initial_amount
          /\ advances[i].last_modified_date = advances[i].date

\* C12: overall_interest_payable_balance is the interest accrued but not yet
\* paid: when payments have paid part of the accrued interest only, the
\* interest payable a report returns and the interest already counted in
\* overall_interest_paid together do not exceed the interest accrued on the
\* advances since they were issued.
C12_UnpaidInterest ==
    (pc = "done" /\ Untouched) =>
        DGe(AccruedFrom(advances, 0, end_datetime + 1, DZero),
            DAdd(overall_interest_payable_balance, overall_interest_paid))

\* the smaller of two amounts
DMin(a, b) == IF DGt(a, b) THEN b ELSE a

\* C13: every processed payment (amount >= 0) increases overall_interest_paid
\* by exactly min(amount, interest payable), the interest payable being the
\* interest accrued on the advances with unpaid principal up to the payment's
\* date, which is also what overall_interest_payable_balance becomes.
C13_InterestPaid ==
    [][DispatchOf(PAYMENT_EVENT) =>
        \A payment \in {event'} :
        \A interest \in {AccruedFrom(advances, 0, payment.date_created, DZero)} :
            /\ payment.amount >= 0
            /\ overall_interest_payable_balance' = interest
            /\ overall_interest_paid' =
                   DAdd(overall_interest_paid, DMin(Dec(payment.amount), interest))]_vars

\* a payment smaller than the accrued interest, then a larger one: the first
\* added its amount, the second added the interest accrued at its date
C13_Witness ==
    /\ idx = 3 /\ Processed
    /\ events[1].type = ADVANCE_EVENT
    /\ events[2].type = PAYMENT_EVENT /\ events[3].type = PAYMENT_EVENT
    /\ DGt(overall_interest_payable_balance, Dec(events[2].amount))
    /\ DGt(Dec(events[3].amount), overall_interest_payable_balance)
    /\ overall_interest_paid = DAdd(Dec(events[2].amount), overall_interest_payable_balance)
    /\ events[2].amount > 0

\* C14: a processed payment whose amount does not exceed the interest accrued
\* at its date leaves every advance (current_amount and last_modified_date),
\* first_not_fully_paid_advance_index, overall_advance_balance and
\* overall_payments_for_future unchanged; only the interest payable and the
\* interest paid may change.
C14_AbsorbedByInterest ==
    [][DispatchOf(PAYMENT_EVENT) =>
        \A payment \in {event'} :
        \A interest \in {AccruedFrom(advances, 0, payment.date_created, DZero)} :
            DGe(interest, Dec(payment.amount)) =>
                UNCHANGED <<advances, first_not_fully_paid_advance_index,
                            overall_advance_balance, overall_payments_for_future>>]_vars

\* a payment smaller than ten days of interest was absorbed: interest was
\* paid, the advance still owes its full amount from its issue date
C14_Witness ==
    /\ idx = 2 /\ Processed
    /\ events[1].type = ADVANCE_EVENT /\ events[2].type = PAYMENT_EVENT
    /\ events[2].amount > 0
    /\ DGt(overall_interest_payable_balance, Dec(events[2].amount))
    /\ overall_interest_paid = Dec(events[2].amount)
    /\ advances[1].current_amount = advances[1].initial_amount
    /\ advances[1].last_modified_date < events[2].date_created

\* C15: issuing an advance whose initial_amount is smaller than the current
\* overall_payments_for_future leaves overall_advance_balance as it was.
C15_PrepaidKeepsBalance ==
    [][DispatchOf(ADVANCE_EVENT) /\ DGt(overall_payments_for_future, Dec(event'.amount)) =>
        overall_advance_balance' = overall_advance_balance]_vars

\* an advance was paid off with credit to spare, and a second advance smaller
\* than the credit was issued
C15_Witness ==
    /\ idx = 3 /\ Processed /\ Len(advances) = 2
    /\ events[1].type = ADVANCE_EVENT /\ events[2].type = PAYMENT_EVENT
    /\ events[3].type = ADVANCE_EVENT /\ events[3].amount > 0
    /\ DGt(overall_payments_for_future, DZero)
    /\ advances[2].current_amount = DZero
    /\ DGt(overall_interest_paid, DZero)
    /\ overall_advance_balance = DZero

\* C16: after a processed payment whose amount exceeds the interest accrued at
\* its date, every advance from the cursor as it was before the payment to
\* the end of the list, reduced or not, has last_modified_date equal to the
\* payment's date.
C16_DatesReset ==
    [][DispatchOf(PAYMENT_EVENT) =>
        \A payment \in {event'} :
        \A interest \in {AccruedFrom(advances, 0, payment.date_created, DZero)} :
            DGt(Dec(payment.amount), interest) =>
                /\ Len(advances') = Len(advances)
                /\ \A i \in (first_not_fully_paid_advance_index + 1)..Len(advances') :
                      advances'[i].last_modified_date = payment.date_created]_vars

\* a later payment paid part of the first of two advances: the second, not
\* reduced, carries the payment's date as well
C16_Witness ==
    /\ idx = 3 /\ Processed /\ Len(advances) = 2
    /\ events[1].type = ADVANCE_EVENT /\ events[2].type = ADVANCE_EVENT
    /\ events[3].type = PAYMENT_EVENT
    /\ events[3].date_created > events[2].date_created
    /\ first_not_fully_paid_advance_index = 0
    /\ DGt(advances[1].initial_amount, advances[1].current_amount)
    /\ advances[2].current_amount = advances[2].initial_amount
    /\ DGt(advances[2].current_amount, DZero)
    /\ advances[1].last_modified_date = events[3].date_created
    /\ advances[2].last_modified_date = events[3].date_created

\* C17: within a report first_not_fully_paid_advance_index never decreases;
\* it never exceeds the length of the advance list, and every advance below
\* it has current_amount = 0, so neither the accrual nor the sweep, which
\* both start at it, passes over unpaid principal.
C17_Cursor ==
    [][/\ pc = "events" =>
              first_not_fully_paid_advance_index' >= first_not_fully_paid_advance_index
       /\ first_not_fully_paid_advance_index' <= Len(advances')
       /\ \A i \in 1..first_not_fully_paid_advance_index' :
              advances'[i].current_amount = DZero]_vars

\* the cursor passed the first advance, paid in full, and stands on the second
\* one, which still owes principal
C17_Witness ==
    /\ Len(advances) = 2
    /\ first_not_fully_paid_advance_index = 1
    /\ DGt(advances[1].initial_amount, DZero)
    /\ advances[1].current_amount = DZero
    /\ DGt(advances[2].current_amount, DZero)

\* C18: with the rows in non-decreasing date order, an advance's
\* last_modified_date starts at its issue date and no step of a report sets
\* it to an earlier date than it had.
C18_DatesForward ==
    [][pc = "events" =>
        /\ Len(advances') >= Len(advances)
        /\ \A i \in 1..Len(advances) :
              advances'[i].last_modified_date >= advances[i].last_modified_date
        /\ \A i \in (Len(advances) + 1)..Len(advances') :
              /\ advances'[i].date = event'.date_created
              /\ advances'[i].last_modified_date = advances'[i].date]_vars

\* an advance was reduced by two payments on two later days
C18_Witness ==
    /\ idx = 3 /\ Processed /\ Len(advances) = 1
    /\ events[2].type = PAYMENT_EVENT /\ events[3].type = PAYMENT_EVENT
    /\ events[2].date_created > advances[1].date
    /\ events[3].date_created > events[2].date_created
    /\ advances[1].last_modified_date = events[3].date_created
    /\ DGt(advances[1].current_amount, DZero)
    /\ DGt(overall_interest_paid, overall_interest_payable_balance)

\* C19: in every reachable state, overall_payments_for_future > 0 implies that
\* overall_advance_balance is 0 and that every advance has current_amount = 0:
\* credit and unpaid principal never coexist.
C19_CreditExcludesPrincipal ==
    DGt(overall_payments_for_future, DZero) =>
        /\ overall_advance_balance = DZero
        /\ \A i \in 1..Len(advances) : advances[i].current_amount = DZero

\* a payment paid off an advance of positive amount, with interest, and left credit
C19_Witness ==
    /\ idx = 2 /\ Processed /\ Len(advances) = 1
    /\ events[2].type = PAYMENT_EVENT
    /\ DGt(advances[1].initial_amount, DZero)
    /\ DGt(overall_interest_paid, DZero)
    /\ DGt(overall_payments_for_future, DZero)
    /\ first_not_fully_paid_advance_index = 1

\* C20: every processed payment (amount >= 0) is fully accounted for: its
\* amount equals the increase of overall_interest_paid plus the decrease of
\* the sum of current_amount over all advances plus the increase of
\* overall_payments_for_future.  (Sums and differences are taken as the
\* engine's arithmetic takes them.)
C20_PaymentAccounted ==
    [][DispatchOf(PAYMENT_EVENT) =>
        \A payment \in {event'} :
        \A interest_paid \in {DSub(overall_interest_paid', overall_interest_paid)} :
        \A principal_paid \in {DSub(SumCurrent(advances, 0), SumCurrent(advances', 0))} :
        \A credit_banked \in {DSub(overall_payments_for_future', overall_payments_for_future)} :
            Dec(payment.amount) = DAdd(DAdd(interest_paid, principal_paid), credit_banked)]_vars

====
